---- MODULE Spec2Model ----
(***************************************************************************)
(* A model of RingBuffer<T, CAPACITY> (src/src/lib.rs): a fixed array of   *)
(* CAPACITY optional slots with two cursors, front and back.  Every public *)
(* method is one action.  Option<T> is modelled as a sequence of length at *)
(* most one: None is <<>>, Some(v) is <<v>>.                               *)
(***************************************************************************)
EXTENDS Integers, Sequences, FiniteSets

\* Largest capacity explored (CAPACITY is a const generic, fixed at construction).
MaxCap == 4
\* Items are drawn from 1..MaxVal.
MaxVal == 3

Capacities == 0..MaxCap
Values == 1..MaxVal

None == <<>>
Some(v) == <<v>>

VARIABLES
  CAPACITY,   \* the const generic parameter of this buffer
  data,       \* lib.rs:7  [Option<T>; CAPACITY], indexed 0..CAPACITY-1
  front,      \* lib.rs:8
  back,       \* lib.rs:9
  panicked,   \* TRUE once a call has panicked (the thread unwinds)
  lastOp,     \* name of the most recent call ("new" right after construction)
  arg,        \* its argument as an Option (None for calls without argument)
  ret,        \* its return value: a BOOLEAN or an Option
  preEmpty,   \* history: front = back held when the most recent call started
  fresh,      \* history: no pop or pop_front has been called since new()
  calls,      \* history: number of push/push_front calls while fresh (saturating)
  runPush,    \* history: which push method built the current run ("none" if no run)
  runPop,     \* history: which pop method is draining the current run
  xs,         \* history: items accepted in the current run, in call order
  ys,         \* history: values returned by the pops of the current run, in call order
  distinct,   \* history: no item has been passed to push/push_front twice so far
  accepted,   \* history: items whose push/push_front returned true (while distinct)
  rejected,   \* history: items whose push/push_front returned false (while distinct)
  returned,   \* history: items returned as Some by pop/pop_front (while distinct)
  dupReturn,  \* history: some pop returned an item that had been returned before
  ends,       \* history: which end the mutators called so far worked on
  stk,        \* reference stack bounded at CAPACITY-1, fed the same calls (single end)
  refRet      \* what the reference stack answered to the most recent mutator call

buf == <<data, front, back>>
hist == <<preEmpty, fresh, calls, runPush, runPop, xs, ys,
          distinct, accepted, rejected, returned, dupReturn, ends, stk, refRet>>
vars == <<CAPACITY, data, front, back, panicked, lastOp, arg, ret,
          preEmpty, fresh, calls, runPush, runPop, xs, ys,
          distinct, accepted, rejected, returned, dupReturn, ends, stk, refRet>>

Indices == 0..(CAPACITY - 1)

\* lib.rs:73-75
is_empty == front = back

\* is_full with the wrap-around forgotten: `self.back + 1 == self.front`
is_full_nowrap == back + 1 = front

\* lib.rs:77-79 (the remainder panics when CAPACITY = 0, see rem_panics)
is_full == (back + 1) % CAPACITY = front

\* `% CAPACITY` with CAPACITY = 0: "attempt to calculate the remainder with a
\* divisor of zero" (lib.rs:25, 61, 78)
rem_panics == CAPACITY = 0

\* `self.data[i]` with i >= CAPACITY: index out of bounds (lib.rs:66, 70, 88, 92)
index_panics(i) == i >= CAPACITY

\* Number of slots holding Some(_)
NumPresent == Cardinality({i \in Indices : data[i] # None})

Min(a, b) == IF a < b THEN a ELSE b

----------------------------------------------------------------------------
\* History bookkeeping (does not influence the buffer).

PushOps == {"push", "push_front"}
PopOps == {"pop", "pop_front"}

\* A run starts with a successful push/push_front on an empty buffer, goes on
\* with successful calls of the same push method, and is then drained by calls
\* of one pop method, at most as many as there were pushes.  Anything else
\* ends the run.
NoRun == /\ runPush' = "none"
         /\ runPop' = "none"
         /\ xs' = <<>>
         /\ ys' = <<>>

RunAfterPush(op, item, ok) ==
  IF ok /\ is_empty
    THEN /\ runPush' = op
         /\ runPop' = "none"
         /\ xs' = <<item>>
         /\ ys' = <<>>
  ELSE IF ok /\ runPush = op /\ runPop = "none"
    THEN /\ xs' = Append(xs, item)
         /\ UNCHANGED <<runPush, runPop, ys>>
  ELSE NoRun

RunAfterPop(op, r) ==
  IF runPush # "none" /\ runPop \in {"none", op} /\ Len(ys) < Len(xs)
    THEN /\ runPop' = op
         /\ ys' = Append(ys, r)
         /\ UNCHANGED <<runPush, xs>>
  ELSE NoRun

\* Bookkeeping of which items were accepted, rejected and returned.  It stops
\* (and forgets) as soon as an item is pushed a second time.
TrackAfterPush(item, ok) ==
  IF distinct /\ item \notin (accepted \cup rejected)
    THEN /\ accepted' = IF ok THEN accepted \cup {item} ELSE accepted
         /\ rejected' = IF ok THEN rejected ELSE rejected \cup {item}
         /\ UNCHANGED <<distinct, returned, dupReturn>>
    ELSE /\ distinct' = FALSE
         /\ accepted' = {}
         /\ rejected' = {}
         /\ returned' = {}
         /\ dupReturn' = FALSE

TrackAfterPop(r) ==
  IF distinct /\ r # None
    THEN /\ returned' = returned \cup {r[1]}
         /\ dupReturn' = (dupReturn \/ r[1] \in returned)
         /\ UNCHANGED <<distinct, accepted, rejected>>
    ELSE UNCHANGED <<distinct, accepted, rejected, returned, dupReturn>>

\* The end a mutator works on, and the ends used so far
EndOf(op) == IF op \in {"push", "pop"} THEN "back" ELSE "front"
EndsAfter(op) == IF ends \in {"none", EndOf(op)} THEN EndOf(op) ELSE "mixed"

\* The reference stack: push is accepted while fewer than CAPACITY-1 items
\* are stacked, pop returns the top.  It is dropped once both ends are in use.
RefDropped ==
  /\ stk' = <<>>
  /\ refRet' = None

RefAfterPush(op, item) ==
  /\ ends' = EndsAfter(op)
  /\ IF ends' = "mixed" THEN RefDropped
     ELSE IF Len(stk) < CAPACITY - 1
       THEN /\ stk' = Append(stk, item)
            /\ refRet' = TRUE
       ELSE /\ stk' = stk
            /\ refRet' = FALSE

RefAfterPop(op) ==
  /\ ends' = EndsAfter(op)
  /\ IF ends' = "mixed" THEN RefDropped
     ELSE IF stk = <<>>
       THEN /\ stk' = stk
            /\ refRet' = None
       ELSE /\ stk' = SubSeq(stk, 1, Len(stk) - 1)
            /\ refRet' = Some(stk[Len(stk)])

HistAfterPush(op, item, ok) ==
  /\ preEmpty' = is_empty
  /\ fresh' = fresh
  /\ calls' = IF fresh THEN Min(calls + 1, CAPACITY + 1) ELSE 0
  /\ RunAfterPush(op, item, ok)
  /\ TrackAfterPush(item, ok)
  /\ RefAfterPush(op, item)

HistAfterPop(op, r) ==
  /\ preEmpty' = is_empty
  /\ fresh' = FALSE
  /\ calls' = 0
  /\ RunAfterPop(op, r)
  /\ TrackAfterPop(r)
  /\ RefAfterPop(op)

HistAfterRead ==
  /\ preEmpty' = is_empty
  /\ UNCHANGED <<fresh, calls, runPush, runPop, xs, ys>>
  /\ UNCHANGED <<distinct, accepted, rejected, returned, dupReturn>>
  /\ UNCHANGED <<ends, stk, refRet>>

\* A panicking call: nothing is returned, the buffer is not used any further.
Panic(op, a) ==
  /\ panicked' = TRUE
  /\ lastOp' = op
  /\ arg' = a
  /\ ret' = None
  /\ UNCHANGED <<CAPACITY, data, front, back>>
  /\ UNCHANGED hist

----------------------------------------------------------------------------
\* new() leaving back on the last slot instead of slot 0
new_back_last(cap) ==
  /\ CAPACITY = cap
  /\ data = [i \in 0..(cap - 1) |-> None]
  /\ front = 0
  /\ back = IF cap = 0 THEN 0 ELSE cap - 1

\* lib.rs:17-19 with the derived Default of lib.rs:1: all slots None, cursors 0
new(cap) ==
  /\ CAPACITY = cap
  /\ data = [i \in 0..(cap - 1) |-> None]
  /\ front = 0
  /\ back = 0

Init ==
  /\ \E cap \in Capacities : new(cap)
  /\ panicked = FALSE
  /\ lastOp = "new"
  /\ arg = None
  /\ ret = None
  /\ preEmpty = TRUE
  /\ fresh = TRUE
  /\ calls = 0
  /\ runPush = "none"
  /\ runPop = "none"
  /\ xs = <<>>
  /\ ys = <<>>
  /\ distinct = TRUE
  /\ accepted = {}
  /\ rejected = {}
  /\ returned = {}
  /\ dupReturn = FALSE
  /\ ends = "none"
  /\ stk = <<>>
  /\ refRet = None

\* push advancing back before the is_full() check
push_advance_first(item) ==
  /\ ~panicked
  /\ IF rem_panics THEN Panic("push", Some(item))
     ELSE /\ back' = (back + 1) % CAPACITY
          /\ IF is_full
               THEN /\ ret' = FALSE
                    /\ UNCHANGED <<data, front>>
               ELSE /\ data' = [data EXCEPT ![back'] = Some(item)]
                    /\ ret' = TRUE
                    /\ UNCHANGED front
          /\ lastOp' = "push"
          /\ arg' = Some(item)
          /\ HistAfterPush("push", item, ~is_full)
          /\ UNCHANGED <<CAPACITY, panicked>>

\* push storing the item before advancing back (store at the old cursor)
push_store_first(item) ==
  /\ ~panicked
  /\ IF rem_panics THEN Panic("push", Some(item))
     ELSE /\ IF is_full
               THEN /\ ret' = FALSE
                    /\ UNCHANGED <<data, front, back>>
               ELSE /\ data' = [data EXCEPT ![back] = Some(item)]
                    /\ back' = (back + 1) % CAPACITY
                    /\ ret' = TRUE
                    /\ UNCHANGED front
          /\ lastOp' = "push"
          /\ arg' = Some(item)
          /\ HistAfterPush("push", item, ~is_full)
          /\ UNCHANGED <<CAPACITY, panicked>>

\* lib.rs:21-28
push(item) ==
  /\ ~panicked
  /\ IF rem_panics THEN Panic("push", Some(item))
     ELSE /\ IF is_full
               THEN /\ ret' = FALSE
                    /\ UNCHANGED <<data, front, back>>
               ELSE /\ back' = (back + 1) % CAPACITY
                    /\ data' = [data EXCEPT ![back'] = Some(item)]
                    /\ ret' = TRUE
                    /\ UNCHANGED front
          /\ lastOp' = "push"
          /\ arg' = Some(item)
          /\ HistAfterPush("push", item, ~is_full)
          /\ UNCHANGED <<CAPACITY, panicked>>

\* push_front retreating with a saturating subtraction instead of wrapping
push_front_saturating(item) ==
  /\ ~panicked
  /\ IF rem_panics THEN Panic("push_front", Some(item))
     ELSE /\ IF is_full
               THEN /\ ret' = FALSE
                    /\ UNCHANGED <<data, front, back>>
               ELSE /\ front' = IF front = 0 THEN 0 ELSE front - 1
                    /\ data' = [data EXCEPT ![front'] = Some(item)]
                    /\ ret' = TRUE
                    /\ UNCHANGED back
          /\ lastOp' = "push_front"
          /\ arg' = Some(item)
          /\ HistAfterPush("push_front", item, ~is_full)
          /\ UNCHANGED <<CAPACITY, panicked>>

\* lib.rs:30-41
push_front(item) ==
  /\ ~panicked
  /\ IF rem_panics THEN Panic("push_front", Some(item))
     ELSE /\ IF is_full
               THEN /\ ret' = FALSE
                    /\ UNCHANGED <<data, front, back>>
               ELSE /\ front' = IF front = 0 THEN CAPACITY - 1 ELSE front - 1
                    /\ data' = [data EXCEPT ![front'] = Some(item)]
                    /\ ret' = TRUE
                    /\ UNCHANGED back
          /\ lastOp' = "push_front"
          /\ arg' = Some(item)
          /\ HistAfterPush("push_front", item, ~is_full)
          /\ UNCHANGED <<CAPACITY, panicked>>

\* pop retreating back with a plain `back - 1`, no wrap to CAPACITY - 1
pop_no_wrap ==
  /\ ~panicked
  /\ IF is_empty
       THEN /\ ret' = None
            /\ UNCHANGED <<data, front, back>>
       ELSE /\ ret' = data[back]
            /\ data' = [data EXCEPT ![back] = None]
            /\ back' = back - 1
            /\ UNCHANGED front
  /\ lastOp' = "pop"
  /\ arg' = None
  /\ HistAfterPop("pop", ret')
  /\ UNCHANGED <<CAPACITY, panicked>>

\* pop retreating back before taking the item (take at the new cursor)
pop_retreat_first ==
  /\ ~panicked
  /\ IF is_empty
       THEN /\ ret' = None
            /\ UNCHANGED <<data, front, back>>
       ELSE /\ back' = IF back = 0 THEN CAPACITY - 1 ELSE back - 1
            /\ ret' = data[back']
            /\ data' = [data EXCEPT ![back'] = None]
            /\ UNCHANGED front
  /\ lastOp' = "pop"
  /\ arg' = None
  /\ HistAfterPop("pop", ret')
  /\ UNCHANGED <<CAPACITY, panicked>>

\* lib.rs:43-54
pop ==
  /\ ~panicked
  /\ IF is_empty
       THEN /\ ret' = None
            /\ UNCHANGED <<data, front, back>>
       ELSE /\ ret' = data[back]
            /\ data' = [data EXCEPT ![back] = None]
            /\ back' = IF back = 0 THEN CAPACITY - 1 ELSE back - 1
            /\ UNCHANGED front
  /\ lastOp' = "pop"
  /\ arg' = None
  /\ HistAfterPop("pop", ret')
  /\ UNCHANGED <<CAPACITY, panicked>>

\* pop_front copying the item out instead of take(): the slot stays present
pop_front_no_take ==
  /\ ~panicked
  /\ IF is_empty
       THEN /\ ret' = None
            /\ UNCHANGED <<data, front, back>>
       ELSE /\ ret' = data[front]
            /\ front' = (front + 1) % CAPACITY
            /\ UNCHANGED <<data, back>>
  /\ lastOp' = "pop_front"
  /\ arg' = None
  /\ HistAfterPop("pop_front", ret')
  /\ UNCHANGED <<CAPACITY, panicked>>

\* lib.rs:56-63
pop_front ==
  /\ ~panicked
  /\ IF is_empty
       THEN /\ ret' = None
            /\ UNCHANGED <<data, front, back>>
       ELSE /\ ret' = data[front]
            /\ data' = [data EXCEPT ![front] = None]
            /\ front' = (front + 1) % CAPACITY
            /\ UNCHANGED back
  /\ lastOp' = "pop_front"
  /\ arg' = None
  /\ HistAfterPop("pop_front", ret')
  /\ UNCHANGED <<CAPACITY, panicked>>

\* A read-only call returning r
Read(op, r) ==
  /\ lastOp' = op
  /\ arg' = None
  /\ ret' = r
  /\ HistAfterRead
  /\ UNCHANGED <<CAPACITY, data, front, back, panicked>>

\* lib.rs:65-67
get_front_ref ==
  /\ ~panicked
  /\ IF index_panics(front) THEN Panic("get_front_ref", None)
     ELSE Read("get_front_ref", data[front])

\* lib.rs:69-71
get_back_ref ==
  /\ ~panicked
  /\ IF index_panics(back) THEN Panic("get_back_ref", None)
     ELSE Read("get_back_ref", data[back])

\* lib.rs:87-89
get_front ==
  /\ ~panicked
  /\ IF index_panics(front) THEN Panic("get_front", None)
     ELSE Read("get_front", data[front])

\* lib.rs:91-93
get_back ==
  /\ ~panicked
  /\ IF index_panics(back) THEN Panic("get_back", None)
     ELSE Read("get_back", data[back])

\* a call of is_empty(), lib.rs:73-75
call_is_empty ==
  /\ ~panicked
  /\ Read("is_empty", is_empty)

\* a call of is_full(), lib.rs:77-79
call_is_full ==
  /\ ~panicked
  /\ IF rem_panics THEN Panic("is_full", None)
     ELSE Read("is_full", is_full)

Next ==
  \/ \E item \in Values : push(item)
  \/ \E item \in Values : push_front(item)
  \/ pop
  \/ pop_front
  \/ get_front_ref
  \/ get_back_ref
  \/ get_front
  \/ get_back
  \/ call_is_empty
  \/ call_is_full

Spec == Init /\ [][Next]_vars

----------------------------------------------------------------------------
TypeOK ==
  /\ CAPACITY \in Capacities
  /\ data \in [Indices -> {None} \cup {Some(v) : v \in Values}]
  /\ front \in Nat
  /\ back \in Nat
  /\ panicked \in BOOLEAN
  /\ preEmpty \in BOOLEAN
  /\ fresh \in BOOLEAN
  /\ calls \in 0..(CAPACITY + 1)
  /\ Len(xs) < MaxCap /\ Len(ys) <= Len(xs)
  /\ distinct \in BOOLEAN /\ dupReturn \in BOOLEAN
  /\ accepted \subseteq Values /\ rejected \subseteq Values /\ returned \subseteq Values
  /\ ends \in {"none", "back", "front", "mixed"}
  /\ Len(stk) < MaxCap

----------------------------------------------------------------------------
\* The circular index range front..back inclusive, walked by +1 mod CAPACITY
InRange(i) ==
  (i + CAPACITY - front) % CAPACITY <= (back + CAPACITY - front) % CAPACITY

Peeks == {"get_front_ref", "get_back_ref", "get_front", "get_back"}

\* C1 (FIFO): in a run of k successful push calls that started on an empty
\* buffer, followed by pop_front calls, the i-th pop_front returns
\* Some of the i-th pushed item.
C1_Fifo ==
  (~panicked /\ runPush = "push" /\ runPop = "pop_front")
    => \A i \in 1..Len(ys) : ys[i] = Some(xs[i])

\* C2 (LIFO): in a run of k successful push calls that started on an empty
\* buffer, followed by pop calls, the i-th pop returns Some of the i-th item
\* counted from the last pushed one, and after k pops the buffer is empty.
C2_Lifo ==
  (~panicked /\ runPush = "push" /\ runPop = "pop")
    => /\ \A i \in 1..Len(ys) : ys[i] = Some(xs[Len(xs) + 1 - i])
       /\ Len(ys) = Len(xs) => is_empty

\* C2 happens: at least two different items pushed and all popped again, in
\* a run that started from an empty state other than the fresh one.
C2_Witness ==
  /\ runPush = "push" /\ runPop = "pop"
  /\ Len(xs) >= 2 /\ Len(ys) = Len(xs)
  /\ xs[1] # xs[2]
  /\ front # 0

\* C3 (push-until-full): while only push and push_front have been called on
\* a new buffer, the n-th such call returns true exactly when n <= CAPACITY-1,
\* and from the (CAPACITY-1)-th call on the buffer is full.
C3_PushUntilFull ==
  (~panicked /\ CAPACITY >= 1 /\ fresh)
    => /\ lastOp \in PushOps => (ret = TRUE <=> calls <= CAPACITY - 1)
       /\ calls >= CAPACITY - 1 => is_full
       /\ calls < CAPACITY - 1 => ~is_full

\* C3 happens: a buffer of capacity >= 3 filled through both ends, and one
\* more call refused.
C3_Witness ==
  /\ fresh /\ CAPACITY >= 3
  /\ calls = CAPACITY + 1
  /\ front # 0 /\ back # 0
  /\ lastOp = "push_front" /\ ret = FALSE

\* C4 (back round trip): with CAPACITY >= 2, push on an empty buffer returns
\* true, and a pop right after it returns Some of the pushed item and leaves
\* the buffer empty.
C4_BackRoundTrip ==
  (~panicked /\ CAPACITY >= 2)
    => /\ (lastOp = "push" /\ preEmpty) => ret = TRUE
       /\ (runPush = "push" /\ runPop = "pop" /\ Len(xs) = 1 /\ Len(ys) = 1)
            => (ys[1] = Some(xs[1]) /\ is_empty)

\* C4 happens: push then pop from an empty state whose cursors are not at 0
\* and whose storage still holds a value.
C4_Witness ==
  /\ CAPACITY >= 2
  /\ lastOp = "pop"
  /\ runPush = "push" /\ runPop = "pop" /\ Len(xs) = 1 /\ Len(ys) = 1
  /\ front # 0
  /\ NumPresent > 0

\* C5 (front round trip): with CAPACITY >= 2, push_front on an empty buffer
\* returns true, and a pop_front right after it returns Some of the pushed
\* item and leaves the buffer empty.
C5_FrontRoundTrip ==
  (~panicked /\ CAPACITY >= 2)
    => /\ (lastOp = "push_front" /\ preEmpty) => ret = TRUE
       /\ (runPush = "push_front" /\ runPop = "pop_front"
             /\ Len(xs) = 1 /\ Len(ys) = 1)
            => (ys[1] = Some(xs[1]) /\ is_empty)

\* C5 happens: push_front then pop_front from an empty state whose cursors
\* are not at 0 and whose storage still holds a value.
C5_Witness ==
  /\ CAPACITY >= 2
  /\ lastOp = "pop_front"
  /\ runPush = "push_front" /\ runPop = "pop_front"
  /\ Len(xs) = 1 /\ Len(ys) = 1
  /\ back # 0
  /\ NumPresent > 0

\* C6 (non-empty removal returns a value): a pop or pop_front called on a
\* buffer that was not empty returns Some.
C6_NonEmptyPopSome ==
  (~panicked /\ lastOp \in PopOps /\ ~preEmpty) => ret # None

\* C7 (wraparound consistency): is_empty holds exactly when no slot is
\* present, and is_full exactly when CAPACITY-1 slots are present.
C7_FlagsMatchCount ==
  CAPACITY >= 1
    => /\ is_empty <=> NumPresent = 0
       /\ is_full <=> NumPresent = CAPACITY - 1

\* C8 (occupied region): in a non-empty state the present slots are exactly
\* those of the circular range front..back inclusive.
C8_OccupiedRegion ==
  (CAPACITY >= 1 /\ ~is_empty)
    => \A i \in Indices : (data[i] # None) <=> InRange(i)

\* C9 (usable capacity): at most CAPACITY-1 slots are present.
C9_UsableCapacity ==
  CAPACITY >= 1 => NumPresent <= CAPACITY - 1

\* C10 (peek matches emptiness): each of the four peeks returns None exactly
\* when the buffer is empty.
C10_PeekMatchesEmpty ==
  (~panicked /\ lastOp \in Peeks) => (ret = None <=> is_empty)

ReadOps == Peeks \cup {"is_empty", "is_full"}

\* The slots other than i keep their content in this step
OthersKept(i) == \A j \in Indices : j # i => data'[j] = data[j]

\* C11 (failed operations change nothing): a push or push_front called on a
\* full buffer returns false, a pop or pop_front called on an empty buffer
\* returns None, and in all four cases front, back and every slot are the
\* same after the call as before.
C11_Step ==
  (CAPACITY >= 1 /\ ~panicked')
    => /\ (lastOp' \in PushOps /\ is_full) => (ret' = FALSE /\ buf' = buf)
       /\ (lastOp' \in PopOps /\ is_empty) => (ret' = None /\ buf' = buf)
C11_FailedOpsChangeNothing == [][C11_Step]_vars

\* C11 happens: a push refused on a full buffer of capacity >= 2 that had
\* been popped before and whose cursors have moved off slot 0.
C11_Witness ==
  /\ CAPACITY >= 2 /\ ~fresh
  /\ lastOp = "push" /\ ret = FALSE
  /\ is_full
  /\ front # 0

\* C12 (initial state): as long as neither a push nor a pop has been called
\* on a buffer of capacity >= 1, front = back = 0 and all slots are absent,
\* is_empty() returns true, the four peeks return None, and is_full()
\* returns false when the capacity is above 1.
C12_InitialState ==
  (CAPACITY >= 1 /\ ~panicked /\ fresh /\ calls = 0)
    => /\ front = 0 /\ back = 0
       /\ \A i \in Indices : data[i] = None
       /\ is_empty
       /\ CAPACITY > 1 => ~is_full
       /\ lastOp \in Peeks => ret = None
       /\ lastOp = "is_empty" => ret = TRUE
       /\ (lastOp = "is_full" /\ CAPACITY > 1) => ret = FALSE

\* C12 happens: is_full() called on a new buffer of capacity above 1.
C12_Witness ==
  /\ CAPACITY > 1 /\ fresh /\ calls = 0
  /\ lastOp = "is_full" /\ ret = FALSE

\* C13 (zero capacity is rejected): no call is ever executed on a buffer of
\* capacity 0, and none aborts on one.
C13_ZeroCapacityRejected ==
  CAPACITY = 0 => (lastOp = "new" /\ ~panicked)

\* C14 (cursor bounds and totality): with capacity >= 1 both cursors stay
\* inside 0..CAPACITY-1 and no call panics.
C14_CursorBounds ==
  CAPACITY >= 1
    => /\ front \in Indices
       /\ back \in Indices
       /\ ~panicked

\* C14 happens: a pop that took the item of slot 0 and wrapped back to
\* CAPACITY-1.
C14_Witness ==
  /\ CAPACITY >= 2
  /\ lastOp = "pop" /\ ~preEmpty /\ ret # None
  /\ back = CAPACITY - 1

\* C15 (frame of each mutator): a successful push moves back by +1 mod N,
\* keeps front and turns exactly the slot at the new back from absent to
\* present; a successful push_front does the same with front moved by -1
\* mod N; pop on a non-empty buffer moves only back by -1 mod N and
\* pop_front only front by +1 mod N, each touching no slot but the one at
\* the old cursor; the peeks, is_empty and is_full change nothing.
C15_Step ==
  (CAPACITY >= 1 /\ ~panicked')
    => /\ (lastOp' = "push" /\ ret' = TRUE)
            => /\ back' = (back + 1) % CAPACITY
               /\ front' = front
               /\ data[back'] = None /\ data'[back'] # None
               /\ OthersKept(back')
       /\ (lastOp' = "push_front" /\ ret' = TRUE)
            => /\ front' = (front + CAPACITY - 1) % CAPACITY
               /\ back' = back
               /\ data[front'] = None /\ data'[front'] # None
               /\ OthersKept(front')
       /\ (lastOp' = "pop" /\ ~is_empty)
            => /\ back' = (back + CAPACITY - 1) % CAPACITY
               /\ front' = front
               /\ OthersKept(back)
       /\ (lastOp' = "pop_front" /\ ~is_empty)
            => /\ front' = (front + 1) % CAPACITY
               /\ back' = back
               /\ OthersKept(front)
       /\ lastOp' \in ReadOps => buf' = buf
C15_Frame == [][C15_Step]_vars

\* C15 happens: a successful push_front that wrapped front to CAPACITY-1 on
\* a buffer that had been popped before.
C15_Witness ==
  /\ CAPACITY >= 3 /\ ~fresh
  /\ lastOp = "push_front" /\ ret = TRUE
  /\ front = CAPACITY - 1

\* C16 (empty and full exclusive exactly when N >= 2): with capacity >= 2 no
\* state is both empty and full; with capacity 1 every state is both, every
\* push and push_front returns false, every pop and pop_front returns None,
\* and the single slot stays absent.
C16_EmptyFullExclusive ==
  /\ CAPACITY >= 2 => ~(is_empty /\ is_full)
  /\ CAPACITY = 1
       => /\ is_empty /\ is_full
          /\ data[0] = None
          /\ ~panicked
          /\ lastOp \in PushOps => ret = FALSE
          /\ lastOp \in PopOps => ret = None

\* C16 happens: a push_front refused on a buffer of capacity 1 that had been
\* popped before.
C16_Witness ==
  /\ CAPACITY = 1 /\ ~fresh
  /\ lastOp = "push_front" /\ ret = FALSE

\* C17 (no overwrite): every slot outside the circular range front..back
\* inclusive is absent, before and after every call; a push or push_front
\* that returns true writes into a slot that was absent and leaves every
\* other slot, so every stored value, as it was.
OutsideAbsent == \A i \in Indices : ~InRange(i) => data[i] = None
C17_Step ==
  (CAPACITY >= 1 /\ ~panicked')
    => /\ OutsideAbsent
       /\ OutsideAbsent'
       /\ (lastOp' = "push" /\ ret' = TRUE)
            => (data[back'] = None /\ OthersKept(back'))
       /\ (lastOp' = "push_front" /\ ret' = TRUE)
            => (data[front'] = None /\ OthersKept(front'))
C17_NoOverwrite == [][C17_Step]_vars

\* C17 happens: a push accepted while values stranded by earlier pops are
\* still stored, filling every slot of the storage.
C17_Witness ==
  /\ CAPACITY >= 3 /\ ~fresh
  /\ lastOp = "push" /\ ret = TRUE
  /\ NumPresent = CAPACITY

\* Number of slots holding Some(v)
SlotsHolding(v) == Cardinality({i \in Indices : data[i] = Some(v)})

\* C18 (conservation): while all pushed items are pairwise distinct, every
\* item returned by a pop was accepted by a push, none is returned twice, a
\* rejected item is never returned, and every accepted item not yet
\* returned is stored in exactly one slot.
C18_Conservation ==
  (CAPACITY >= 1 /\ ~panicked /\ distinct)
    => /\ returned \subseteq accepted
       /\ ~dupReturn
       /\ returned \cap rejected = {}
       /\ \A v \in accepted \ returned : SlotsHolding(v) = 1

\* C18 happens: one item rejected, one returned, and one stranded in storage
\* although the buffer reports empty.
C18_Witness ==
  /\ CAPACITY >= 1 /\ distinct
  /\ rejected # {} /\ returned # {}
  /\ accepted \ returned # {}
  /\ is_empty

\* C19 (single-end use is a bounded stack): while the mutators called on a
\* new buffer all work on the same end, every push/push_front and
\* pop/pop_front returns what a reference stack bounded at CAPACITY-1
\* returns, is_empty holds exactly when the reference stack is empty, and
\* is_full exactly when it holds CAPACITY-1 items.
C19_SingleEndStack ==
  (CAPACITY >= 1 /\ ~panicked /\ ends \in {"back", "front"})
    => /\ lastOp \in (PushOps \cup PopOps) => ret = refRet
       /\ is_empty <=> Len(stk) = 0
       /\ is_full <=> Len(stk) = CAPACITY - 1
       /\ lastOp = "is_empty" => (ret <=> Len(stk) = 0)
       /\ lastOp = "is_full" => (ret <=> Len(stk) = CAPACITY - 1)

\* C19 happens: front-end only use in which a push_front was refused on the
\* full buffer and a later pop_front returned an item, leaving others.
C19_Witness ==
  /\ CAPACITY >= 3 /\ ends = "front"
  /\ rejected # {}
  /\ lastOp = "pop_front" /\ ret # None
  /\ Len(stk) >= 1

====
